---- MODULE Spec2Model ----
(***************************************************************************)
(* Model of parquet_cli/audit_tool/audit_tool.py: audit() reconciles the   *)
(* S3 listing of a bucket against the OpenSearch catalog, reports the keys *)
(* that have no catalog document, and re-invokes itself when the Lambda    *)
(* host is about to time out.                                              *)
(*                                                                         *)
(* Python strings are sequences of one-character strings, Python None is   *)
(* the value None below.  The external services (S3, OpenSearch, SQS, SNS, *)
(* Lambda, the file system) are modelled by the log `calls` of the calls   *)
(* made on them and by the state they hold (s3_objects, es_docs,           *)
(* file_content, pending).  A call on SQS, SNS, Lambda or the file system  *)
(* returns normally; an OpenSearch get may answer or raise.                *)
(***************************************************************************)
EXTENDS Integers, Sequences, FiniteSets, TLC

\* ------------------------------------------------------------------ bounds
\* Number of object keys the bucket may hold.
MaxKeys == 3
\* Number of objects list_objects_v2 returns per page.
PageSize == 2
\* The Lambda timeout, in units of LookupMs.
MaxTicks == 3
\* Number of object keys of the bucket that is audited twice.
RepeatKeys == 2
\* Number of records of an event of the indexer.
MaxRecords == 2

\* ------------------------------------------------------- program constants
\* audit_tool.py:157  (60 * 1000)
LowWaterMs == 60000
\* Time one catalog lookup takes on the host clock; below LowWaterMs, so the
\* host never kills a run between two budget checks.
LookupMs == LowWaterMs \div 2

None == <<"<None>">>
Slash == "/"
Newline == "\n"

\* ---------------------------------------------------------------- values
\* None where a record is expected (lambda_ctx, resume_from_key, a payload).
NoneObj == [type |-> "NoneType"]
\* A Python str and an element of a page's Contents, as compared by == and in.
PyStr(s) == [type |-> "str", val |-> s]
PyDict(k) == [type |-> "dict", Key |-> k]
\* Truth value of an optional string argument (not output_file, if sns_topic).
Truthy(v) == v # None /\ v # <<>>

\* audit_tool.py:44-52
append_slash(string) ==
    IF string = None THEN None
    ELSE IF string = <<>> THEN string
    ELSE IF string[Len(string)] # Slash THEN string \o <<Slash>>
    ELSE string

KeyNames == <<"a", "b", "c", "d", "e">>
KeyOf(n) == <<KeyNames[n]>>
AllKeys == {KeyOf(n) : n \in 1..MaxKeys}

BucketName == <<"b">>
S3Scheme == <<"s", "3", ":", Slash, Slash>>
PortDefault == <<"4", "4", "3">>

\* ------------------------------------------------------------------ state
VARIABLES
    \* arguments of audit()
    format, output_file, sns_topic, resume_from_key, lambda_ctx,
    \* os.environ
    environ,
    \* external state
    s3_objects,        \* keys of the bucket under the prefix, in listing order
    es_docs,           \* ids of the documents of the catalog
    file_content,      \* content of the report file, None when it does not exist
    pending,           \* payload of the Lambda invocation not yet started
    \* locals of audit()
    pc, keys, page, pos, count, error_count, error_s3_keys, missing_keys,
    need_to_resume, sqs_messages, sent,
    \* host clock and observation
    remaining,         \* lambda_ctx.get_remaining_time_in_millis()
    budget_checks,     \* values read from the host clock in this run
    calls,             \* calls made on the external services in this run
    raised,            \* exception that ended the run, NoException otherwise
    exit_status,       \* exit status of the process, NotExited while running
    history,           \* the argument resume_from_key of this run, and what
                       \* the run before it looked up and found missing
    \* ParquetFileEsIndexer
    ix_pc, ix_event, ix_i, ix_s3_url, ix_ops,
    \* AuthenticatorAwsSecretManager
    au_token, au_secret, au_loaded, au_input, au_result

args == <<format, output_file, sns_topic, resume_from_key, lambda_ctx>>
world == <<environ, s3_objects, es_docs, file_content, pending>>
locals == <<pc, keys, page, pos, count, error_count, error_s3_keys,
            missing_keys, need_to_resume, sqs_messages, sent>>
observed == <<remaining, budget_checks, calls, raised, exit_status>>
indexer == <<ix_pc, ix_event, ix_i, ix_s3_url, ix_ops>>
authenticator == <<au_token, au_secret, au_loaded, au_input, au_result>>
\* The objects that audit() does not touch.
aside == <<indexer, authenticator>>
vars == <<args, world, locals, observed, history, indexer, authenticator>>

\* ------------------------------------------------------------ environment
EnvNames == {"AWS_ACCESS_KEY_ID", "AWS_SECRET_ACCESS_KEY", "AWS_SESSION_TOKEN",
             "OPENSEARCH_ENDPOINT", "OPENSEARCH_PORT", "OPENSEARCH_INDEX",
             "OPENSEARCH_PATH_PREFIX", "OPENSEARCH_BUCKET", "OPENSEARCH_ID_PREFIX"}

\* os.environ.get(name, default); an unset variable is held as None.
EnvGet(name, default) == IF environ[name] = None THEN default ELSE environ[name]

\* audit_tool.py:78-81
AWS_ACCESS_KEY_ID == EnvGet("AWS_ACCESS_KEY_ID", None)
AWS_SECRET_ACCESS_KEY == EnvGet("AWS_SECRET_ACCESS_KEY", None)
AwsCredentialsUnset == AWS_ACCESS_KEY_ID = None \/ AWS_SECRET_ACCESS_KEY = None

\* audit_tool.py:86-92
OPENSEARCH_ENDPOINT == EnvGet("OPENSEARCH_ENDPOINT", None)
OPENSEARCH_PORT == EnvGet("OPENSEARCH_PORT", PortDefault)
OPENSEARCH_INDEX == EnvGet("OPENSEARCH_INDEX", None)
OPENSEARCH_PATH_PREFIX == append_slash(EnvGet("OPENSEARCH_PATH_PREFIX", None))
OPENSEARCH_BUCKET == EnvGet("OPENSEARCH_BUCKET", None)
OPENSEARCH_ID_PREFIX ==
    append_slash(EnvGet("OPENSEARCH_ID_PREFIX",
                        S3Scheme \o OPENSEARCH_BUCKET \o <<Slash>>))
\* OpenSearchParamsUnset without the test of OPENSEARCH_BUCKET.
OpenSearchParamsUnset_NoBucket ==
    \/ OPENSEARCH_ENDPOINT = None
    \/ OPENSEARCH_PORT = None
    \/ OPENSEARCH_ID_PREFIX = None
    \/ OPENSEARCH_INDEX = None
    \/ OPENSEARCH_PATH_PREFIX = None

OpenSearchParamsUnset ==
    \/ OPENSEARCH_ENDPOINT = None
    \/ OPENSEARCH_PORT = None
    \/ OPENSEARCH_ID_PREFIX = None
    \/ OPENSEARCH_INDEX = None
    \/ OPENSEARCH_PATH_PREFIX = None
    \/ OPENSEARCH_BUCKET = None

\* OutputFileRequired with "is None" for "not".
OutputFileRequired_NoneOnly(fmt, out) == fmt = "mock-s3" /\ out = None

\* audit_tool.py:74
OutputFileRequired(fmt, out) == fmt = "mock-s3" /\ ~Truthy(out)

\* ------------------------------------------------------------------- Init
Formats == {"plain", "mock-s3"}
Dest == <<"o">>
Topic == <<"t">>
FunctionName == <<"f">>
OldReport == <<"z", Newline>>

Min(S) == CHOOSE m \in S : \A n \in S : m <= n

\* The keys of a set of objects in the order list_objects_v2 returns them.
RECURSIVE ListingOf(_)
ListingOf(S) ==
    IF S = {} THEN <<>>
    ELSE <<KeyOf(Min(S))>> \o ListingOf(S \ {Min(S)})

Listings == {ListingOf(S) : S \in SUBSET (1..MaxKeys)}

\* The id the indexer gives the document of an object (its S3 URL).
S3Url(key) == S3Scheme \o BucketName \o <<Slash>> \o key

Contexts ==
    {[type |-> "LambdaContext", function_name |-> FunctionName,
      timeout |-> n * LookupMs] : n \in 1..MaxTicks}

FullEnv ==
    [AWS_ACCESS_KEY_ID |-> <<"k">>, AWS_SECRET_ACCESS_KEY |-> <<"s">>,
     AWS_SESSION_TOKEN |-> None, OPENSEARCH_ENDPOINT |-> <<"h">>,
     OPENSEARCH_PORT |-> None, OPENSEARCH_INDEX |-> <<"i">>,
     OPENSEARCH_PATH_PREFIX |-> <<"p">>, OPENSEARCH_BUCKET |-> BucketName,
     OPENSEARCH_ID_PREFIX |-> None]

\* Every required variable set or unset, the prefixes also empty.
Environs ==
    [AWS_ACCESS_KEY_ID : {None, <<"k">>},
     AWS_SECRET_ACCESS_KEY : {None, <<"s">>},
     AWS_SESSION_TOKEN : {None},
     OPENSEARCH_ENDPOINT : {None, <<"h">>},
     OPENSEARCH_PORT : {None},
     OPENSEARCH_INDEX : {None, <<"i">>},
     OPENSEARCH_PATH_PREFIX : {None, <<>>, <<"p">>},
     OPENSEARCH_BUCKET : {None, BucketName},
     OPENSEARCH_ID_PREFIX : {None, <<>>, <<"x">>, <<"x", Slash>>}]

NoException == "none"
NotExited == 0 - 1

\* The locals of audit() and the observations of a run that has not started.
RunStart ==
    /\ pc = "start"
    /\ keys = <<>>
    /\ page = 0
    /\ pos = 1
    /\ count = 0
    /\ error_count = 0
    /\ error_s3_keys = <<>>
    /\ missing_keys = <<>>
    /\ need_to_resume = FALSE
    /\ sqs_messages = <<>>
    /\ sent = 0
    /\ remaining = IF lambda_ctx = NoneObj THEN 0 ELSE lambda_ctx.timeout
    /\ budget_checks = <<>>
    /\ calls = <<>>
    /\ raised = NoException
    /\ exit_status = NotExited

\* Runs over every bucket, every catalog of documents of its objects, every
\* host and resume key, in a complete environment.
InitScan ==
    /\ environ = FullEnv
    /\ format \in Formats
    /\ output_file \in {None, <<>>, Dest}
    /\ sns_topic \in IF format = "plain" THEN {None} ELSE {None, Topic}
    /\ resume_from_key \in {NoneObj} \cup {PyStr(k) : k \in AllKeys}
    /\ lambda_ctx \in {NoneObj} \cup Contexts
    /\ s3_objects \in Listings
    /\ es_docs \in SUBSET {S3Url(s3_objects[j]) : j \in 1..Len(s3_objects)}
    /\ file_content \in IF format = "plain" /\ Truthy(output_file)
                         THEN {None, OldReport} ELSE {None}
    /\ pending = NoneObj
    /\ RunStart

\* Runs over every environment and every combination of the output arguments.
InitConfig ==
    /\ environ \in Environs
    /\ format \in Formats
    /\ output_file \in {None, <<>>, Dest}
    /\ sns_topic \in {None, Topic}
    /\ resume_from_key = NoneObj
    /\ lambda_ctx = NoneObj
    /\ s3_objects = <<KeyOf(1)>>
    /\ es_docs = {}
    /\ file_content = None
    /\ pending = NoneObj
    /\ RunStart

\* parquet_file_es_indexer.py:36-43: the indexer before start is called.
IndexerIdle ==
    /\ ix_pc = "idle"
    /\ ix_event = <<>>
    /\ ix_i = 0
    /\ ix_s3_url = None
    /\ ix_ops = <<>>

\* authenticator_aws_secret_manager.py:27-30: the token is '' and nothing has
\* been called.
AuthenticatorIdle ==
    /\ au_token = PyStr(<<>>)
    /\ au_secret = NoneObj
    /\ au_loaded = FALSE
    /\ au_input = NoneObj
    /\ au_result = [op |-> "none", kind |-> "none", value |-> NoneObj,
                    exc |-> NoException]

\* No run before this one; the run is given resume_from_key.
FirstRun ==
    history = [arg |-> resume_from_key, ran |-> FALSE, repeat |-> FALSE,
               outcomes |-> <<>>, missing |-> <<>>]

Init ==
    /\ InitScan \/ InitConfig
    /\ FirstRun
    /\ IndexerIdle
    /\ AuthenticatorIdle

\* ------------------------------------------------------------- validation
Call(op, arg) == [op |-> op, arg |-> arg]

\* An exception leaves audit(); nothing catches it, the interpreter exits 1.
Raise(exc) ==
    /\ pc' = "raised"
    /\ raised' = exc
    /\ exit_status' = 1

\* audit_tool.py:74-75
CheckOutputFile ==
    /\ pc = "start"
    /\ IF OutputFileRequired(format, output_file)
       THEN Raise("ValueError")
       ELSE pc' = "aws_env" /\ UNCHANGED <<raised, exit_status>>
    /\ UNCHANGED <<args, world, keys, page, pos, count, error_count,
                   error_s3_keys, missing_keys, need_to_resume, sqs_messages,
                   sent, remaining, budget_checks, calls>>
    /\ UNCHANGED <<history, aside>>

\* audit_tool.py:78-83
CheckAwsCredentials ==
    /\ pc = "aws_env"
    /\ IF AwsCredentialsUnset
       THEN Raise("SystemExit")
       ELSE pc' = "os_env" /\ UNCHANGED <<raised, exit_status>>
    /\ UNCHANGED <<args, world, keys, page, pos, count, error_count,
                   error_s3_keys, missing_keys, need_to_resume, sqs_messages,
                   sent, remaining, budget_checks, calls>>
    /\ UNCHANGED <<history, aside>>

\* audit_tool.py:86-130: the parameters are checked, the clients are built.
CheckOpenSearchParams ==
    /\ pc = "os_env"
    /\ IF OpenSearchParamsUnset
       THEN Raise("SystemExit")
       ELSE pc' = "listing" /\ UNCHANGED <<raised, exit_status>>
    /\ UNCHANGED <<args, world, keys, page, pos, count, error_count,
                   error_s3_keys, missing_keys, need_to_resume, sqs_messages,
                   sent, remaining, budget_checks, calls>>
    /\ UNCHANGED <<history, aside>>

\* ---------------------------------------------------------------- listing
\* audit_tool.py:139-143: one page of the paginator is appended to keys.
ListPage ==
    /\ pc = "listing"
    /\ LET first == page * PageSize + 1
           last == Min({page * PageSize + PageSize, Len(s3_objects)})
           Contents == [j \in 1..(last - first + 1) |->
                           PyDict(s3_objects[first + j - 1])]
       IN /\ keys' = keys \o Contents
          /\ calls' = Append(calls,
                 Call("list_objects_v2",
                      [Bucket |-> OPENSEARCH_BUCKET,
                       Prefix |-> OPENSEARCH_PATH_PREFIX, page |-> page]))
          /\ page' = page + 1
          /\ pc' = IF last >= Len(s3_objects) THEN "select" ELSE "listing"
    /\ UNCHANGED <<args, world, pos, count, error_count, error_s3_keys,
                   missing_keys, need_to_resume, sqs_messages, sent,
                   remaining, budget_checks, raised, exit_status>>
    /\ UNCHANGED <<history, aside>>

\* x in seq, with the == of Python
Contains(seq, x) == \E j \in 1..Len(seq) : seq[j] = x
\* seq.index(x)
IndexOf(seq, x) == Min({j \in 1..Len(seq) : seq[j] = x}) - 1

\* StartIndex skipping the whole listing when the resume key is not in it.
StartIndex_SkipWhenAbsent(ks, resume) ==
    IF resume # NoneObj /\ Contains(ks, resume)
    THEN IndexOf(ks, resume)
    ELSE IF resume # NoneObj THEN Len(ks) ELSE 0

\* audit_tool.py:145-150
StartIndex(ks, resume) ==
    IF resume # NoneObj /\ Contains(ks, resume)
    THEN IndexOf(ks, resume)
    ELSE 0

\* audit_tool.py:145-154
SelectStart ==
    /\ pc = "select"
    /\ keys' = SubSeq(keys, StartIndex(keys, resume_from_key) + 1, Len(keys))
    /\ need_to_resume' = FALSE
    /\ pc' = "loop"
    /\ UNCHANGED <<args, world, page, pos, count, error_count, error_s3_keys,
                   missing_keys, sqs_messages, sent, observed>>
    /\ UNCHANGED <<history, aside>>

\* ------------------------------------------------------------------- scan
\* audit_tool.py:168  (os.path.join of one argument returns it)
OpensearchId(key) == OPENSEARCH_ID_PREFIX \o key

\* What opensearch_client.get can do for an id: return a dict whose 'found'
\* is True only for a document of the catalog, return None or something that
\* is no dict, raise NotFoundError only for an id the catalog does not hold,
\* or raise another TransportError.
Raises == {"NotFoundError", "TransportError"}
GetOutcomes(id) ==
    IF id \in es_docs
    THEN {"dict_found", "None", "non_dict", "TransportError"}
    ELSE {"dict_not_found", "None", "non_dict", "NotFoundError", "TransportError"}

\* audit_tool.py:170
ResponseMissing(r) ==
    r = "None" \/ r \notin {"dict_found", "dict_not_found"} \/ r # "dict_found"

\* ReportsMissing with the NotFoundError handler only counting the error.
ReportsMissing_NotFoundDropped(o) ==
    IF o \in Raises THEN FALSE ELSE ResponseMissing(o)

\* audit_tool.py:170-183: the outcomes that append the key to missing_keys.
ReportsMissing(o) ==
    IF o \in Raises THEN o = "NotFoundError" ELSE ResponseMissing(o)

\* audit_tool.py:171,177,183: the outcomes that increment error_count.
CountsError(o) == o \in Raises \/ ResponseMissing(o)

\* BudgetLow with <= for <.
BudgetLow_Inclusive(ctx, rem) == ctx # NoneObj /\ rem <= LowWaterMs

\* BudgetLow without the test of lambda_ctx.
BudgetLow_NoHostTest(ctx, rem) == rem < LowWaterMs

\* audit_tool.py:157
BudgetLow(ctx, rem) == ctx # NoneObj /\ rem < LowWaterMs

\* Suspend leaving audit() for the re-invocation without the Result Sink.
Suspend_SkipSink ==
    /\ pc = "loop"
    /\ pos <= Len(keys)
    /\ BudgetLow(lambda_ctx, remaining)
    /\ budget_checks' = Append(budget_checks, remaining)
    /\ need_to_resume' = TRUE
    /\ resume_from_key' = PyStr(keys[pos].Key)
    /\ pc' = "resume"
    /\ UNCHANGED <<format, output_file, sns_topic, lambda_ctx, world, keys,
                   page, pos, count, error_count, error_s3_keys, missing_keys,
                   sqs_messages, sent, remaining, calls, raised, exit_status>>
    /\ UNCHANGED <<history, aside>>

\* audit_tool.py:157-163
Suspend ==
    /\ pc = "loop"
    /\ pos <= Len(keys)
    /\ BudgetLow(lambda_ctx, remaining)
    /\ budget_checks' = Append(budget_checks, remaining)
    /\ need_to_resume' = TRUE
    /\ resume_from_key' = PyStr(keys[pos].Key)
    /\ pc' = "report"
    /\ UNCHANGED <<format, output_file, sns_topic, lambda_ctx, world, keys,
                   page, pos, count, error_count, error_s3_keys, missing_keys,
                   sqs_messages, sent, remaining, calls, raised, exit_status>>
    /\ UNCHANGED <<history, aside>>

\* Lookup without the handler of line 182: a TransportError leaves audit().
Lookup_AbortOnError ==
    /\ pc = "loop"
    /\ pos <= Len(keys)
    /\ ~BudgetLow(lambda_ctx, remaining)
    /\ \E o \in GetOutcomes(OpensearchId(keys[pos].Key)) :
          /\ calls' = Append(calls,
                 Call("get", [index |-> OPENSEARCH_INDEX,
                              id |-> OpensearchId(keys[pos].Key),
                              outcome |-> o]))
          /\ error_count' = IF CountsError(o) THEN error_count + 1
                            ELSE error_count
          /\ error_s3_keys' = IF ReportsMissing(o)
                              THEN Append(error_s3_keys, keys[pos].Key)
                              ELSE error_s3_keys
          /\ missing_keys' = IF ReportsMissing(o)
                             THEN Append(missing_keys, keys[pos].Key)
                             ELSE missing_keys
          /\ IF o = "TransportError"
             THEN Raise("TransportError")
             ELSE UNCHANGED <<pc, raised, exit_status>>
    /\ count' = count + 1
    /\ pos' = pos + 1
    /\ budget_checks' = IF lambda_ctx = NoneObj THEN budget_checks
                        ELSE Append(budget_checks, remaining)
    /\ remaining' = IF lambda_ctx = NoneObj THEN remaining
                    ELSE remaining - LookupMs
    /\ UNCHANGED <<args, world, keys, page, need_to_resume, sqs_messages,
                   sent>>
    /\ UNCHANGED <<history, aside>>

\* Lookup that indexes the document when the lookup finds none.
Lookup_IndexOnMiss ==
    /\ pc = "loop"
    /\ pos <= Len(keys)
    /\ ~BudgetLow(lambda_ctx, remaining)
    /\ \E o \in GetOutcomes(OpensearchId(keys[pos].Key)) :
          /\ calls' = Append(calls,
                 Call("get", [index |-> OPENSEARCH_INDEX,
                              id |-> OpensearchId(keys[pos].Key),
                              outcome |-> o]))
          /\ error_count' = IF CountsError(o) THEN error_count + 1
                            ELSE error_count
          /\ error_s3_keys' = IF ReportsMissing(o)
                              THEN Append(error_s3_keys, keys[pos].Key)
                              ELSE error_s3_keys
          /\ missing_keys' = IF ReportsMissing(o)
                             THEN Append(missing_keys, keys[pos].Key)
                             ELSE missing_keys
          /\ es_docs' = IF ReportsMissing(o)
                        THEN es_docs \cup {OpensearchId(keys[pos].Key)}
                        ELSE es_docs
    /\ count' = count + 1
    /\ pos' = pos + 1
    /\ budget_checks' = IF lambda_ctx = NoneObj THEN budget_checks
                        ELSE Append(budget_checks, remaining)
    /\ remaining' = IF lambda_ctx = NoneObj THEN remaining
                    ELSE remaining - LookupMs
    /\ UNCHANGED <<args, environ, s3_objects, file_content, pending, pc, keys,
                   page, need_to_resume, sqs_messages, sent, raised,
                   exit_status>>
    /\ UNCHANGED <<history, aside>>

\* audit_tool.py:156-186: one item that the budget check lets through.
Lookup ==
    /\ pc = "loop"
    /\ pos <= Len(keys)
    /\ ~BudgetLow(lambda_ctx, remaining)
    /\ \E o \in GetOutcomes(OpensearchId(keys[pos].Key)) :
          /\ calls' = Append(calls,
                 Call("get", [index |-> OPENSEARCH_INDEX,
                              id |-> OpensearchId(keys[pos].Key),
                              outcome |-> o]))
          /\ error_count' = IF CountsError(o) THEN error_count + 1
                            ELSE error_count
          /\ error_s3_keys' = IF ReportsMissing(o)
                              THEN Append(error_s3_keys, keys[pos].Key)
                              ELSE error_s3_keys
          /\ missing_keys' = IF ReportsMissing(o)
                             THEN Append(missing_keys, keys[pos].Key)
                             ELSE missing_keys
    /\ count' = count + 1
    /\ pos' = pos + 1
    /\ budget_checks' = IF lambda_ctx = NoneObj THEN budget_checks
                        ELSE Append(budget_checks, remaining)
    /\ remaining' = IF lambda_ctx = NoneObj THEN remaining
                    ELSE remaining - LookupMs
    /\ UNCHANGED <<args, world, pc, keys, page, need_to_resume, sqs_messages,
                   sent, raised, exit_status>>
    /\ UNCHANGED <<history, aside>>

\* audit_tool.py:156,188-189: the sequence is exhausted.
EndScan ==
    /\ pc = "loop"
    /\ pos > Len(keys)
    /\ pc' = "report"
    /\ UNCHANGED <<args, world, keys, page, pos, count, error_count,
                   error_s3_keys, missing_keys, need_to_resume, sqs_messages,
                   sent, observed>>
    /\ UNCHANGED <<history, aside>>

\* ------------------------------------------------------------------- sink
\* ReportText with the keys joined, no line terminator.
RECURSIVE ReportText_NoNewline(_)
ReportText_NoNewline(missing) ==
    IF missing = <<>> THEN <<>>
    ELSE Head(missing) \o ReportText_NoNewline(Tail(missing))

\* audit_tool.py:194-195: what the loop writes to the file.
RECURSIVE ReportText(_)
ReportText(missing) ==
    IF missing = <<>> THEN <<>>
    ELSE Head(missing) \o <<Newline>> \o ReportText(Tail(missing))

\* key_to_sqs_msg with its arguments exchanged.
key_to_sqs_msg_Swapped(key, bucket) ==
    [Records |-> <<[eventName |-> "ObjectCreated:Put",
                    s3 |-> [bucket |-> [name |-> key],
                            object |-> [key |-> bucket]]]>>]

\* audit_tool.py:55-70: the S3 event that json.dumps serialises.
key_to_sqs_msg(key, bucket) ==
    [Records |-> <<[eventName |-> "ObjectCreated:Put",
                    s3 |-> [bucket |-> [name |-> bucket],
                            object |-> [key |-> key]]]>>]

\* WriteReport that opens the file for appending.
WriteReport_Append ==
    /\ pc = "report"
    /\ format = "plain"
    /\ IF Truthy(output_file)
       THEN /\ file_content' = (IF file_content = None THEN <<>>
                                ELSE file_content) \o ReportText(missing_keys)
            /\ calls' = Append(calls,
                   Call("write", [path |-> output_file,
                                  text |-> ReportText(missing_keys)]))
       ELSE UNCHANGED <<file_content, calls>>
    /\ pc' = "resume"
    /\ UNCHANGED <<args, environ, s3_objects, es_docs, pending, keys, page,
                   pos, count, error_count, error_s3_keys, missing_keys,
                   need_to_resume, sqs_messages, sent, remaining,
                   budget_checks, raised, exit_status>>
    /\ UNCHANGED <<history, aside>>

\* audit_tool.py:191-197: open(output_file, 'w') truncates the file.
WriteReport ==
    /\ pc = "report"
    /\ format = "plain"
    /\ IF Truthy(output_file)
       THEN /\ file_content' = ReportText(missing_keys)
            /\ calls' = Append(calls,
                   Call("write", [path |-> output_file,
                                  text |-> ReportText(missing_keys)]))
       ELSE UNCHANGED <<file_content, calls>>
    /\ pc' = "resume"
    /\ UNCHANGED <<args, environ, s3_objects, es_docs, pending, keys, page,
                   pos, count, error_count, error_s3_keys, missing_keys,
                   need_to_resume, sqs_messages, sent, remaining,
                   budget_checks, raised, exit_status>>
    /\ UNCHANGED <<history, aside>>

\* audit_tool.py:198-201
BuildMessages ==
    /\ pc = "report"
    /\ format # "plain"
    /\ sqs_messages' = [j \in 1..Len(missing_keys) |->
                           key_to_sqs_msg(missing_keys[j], OPENSEARCH_BUCKET)]
    /\ sent' = 0
    /\ pc' = "sqs"
    /\ UNCHANGED <<args, world, keys, page, pos, count, error_count,
                   error_s3_keys, missing_keys, need_to_resume, observed>>
    /\ UNCHANGED <<history, aside>>

\* audit_tool.py:203-204
SendMessage ==
    /\ pc = "sqs"
    /\ sent < Len(sqs_messages)
    /\ calls' = Append(calls,
           Call("send_message", [queue |-> output_file,
                                 body |-> sqs_messages[sent + 1]]))
    /\ sent' = sent + 1
    /\ UNCHANGED <<args, world, pc, keys, page, pos, count, error_count,
                   error_s3_keys, missing_keys, need_to_resume, sqs_messages,
                   remaining, budget_checks, raised, exit_status>>
    /\ UNCHANGED <<history, aside>>

\* audit_tool.py:206-213
Publish ==
    /\ pc = "sqs"
    /\ sent >= Len(sqs_messages)
    /\ calls' = IF Truthy(sns_topic)
                THEN Append(calls,
                        Call("publish", [topic |-> sns_topic,
                                         found |-> Len(missing_keys),
                                         subject |-> "Insitu audit"]))
                ELSE calls
    /\ pc' = "resume"
    /\ UNCHANGED <<args, world, keys, page, pos, count, error_count,
                   error_s3_keys, missing_keys, need_to_resume, sqs_messages,
                   sent, remaining, budget_checks, raised, exit_status>>
    /\ UNCHANGED <<history, aside>>

\* ------------------------------------------------------------ continuation
\* audit_tool.py:219
Payload(resume) == [ResumeFromKey |-> resume.val]

\* audit_tool.py:215-222: the run returns after the asynchronous invoke.
Reinvoke ==
    /\ pc = "resume"
    /\ IF need_to_resume
       THEN /\ calls' = Append(calls,
                   Call("invoke", [FunctionName |-> lambda_ctx.function_name,
                                   InvocationType |-> "Event",
                                   Payload |-> Payload(resume_from_key)]))
            /\ pending' = Payload(resume_from_key)
       ELSE UNCHANGED <<calls, pending>>
    /\ pc' = "done"
    /\ exit_status' = 0
    /\ UNCHANGED <<args, environ, s3_objects, es_docs, file_content, keys,
                   page, pos, count, error_count, error_s3_keys, missing_keys,
                   need_to_resume, sqs_messages, sent, remaining,
                   budget_checks, raised>>
    /\ UNCHANGED <<history, aside>>

\* The host starts the invocation that was requested: audit() runs again with
\* the same arguments and environment, resume_from_key taken from the payload,
\* and a fresh time budget. history keeps the missing keys of the run that
\* asked for it.
HostInvoke ==
    /\ pc = "done"
    /\ pending # NoneObj
    /\ resume_from_key' = PyStr(pending.ResumeFromKey)
    /\ pending' = NoneObj
    /\ pc' = "start"
    /\ keys' = <<>>
    /\ page' = 0
    /\ pos' = 1
    /\ count' = 0
    /\ error_count' = 0
    /\ error_s3_keys' = <<>>
    /\ missing_keys' = <<>>
    /\ need_to_resume' = FALSE
    /\ sqs_messages' = <<>>
    /\ sent' = 0
    /\ remaining' = lambda_ctx.timeout
    /\ budget_checks' = <<>>
    /\ calls' = <<>>
    /\ raised' = NoException
    /\ exit_status' = NotExited
    /\ UNCHANGED <<format, output_file, sns_topic, lambda_ctx, environ,
                   s3_objects, es_docs, file_content>>
    /\ history' = [arg |-> PyStr(pending.ResumeFromKey), ran |-> TRUE,
                    repeat |-> FALSE, outcomes |-> <<>>,
                    missing |-> missing_keys]
    /\ UNCHANGED aside

\* ------------------------------------------------------------ specification
Next ==
    \/ CheckOutputFile
    \/ CheckAwsCredentials
    \/ CheckOpenSearchParams
    \/ ListPage
    \/ SelectStart
    \/ Suspend
    \/ Lookup
    \/ EndScan
    \/ WriteReport
    \/ BuildMessages
    \/ SendMessage
    \/ Publish
    \/ Reinvoke
    \/ HostInvoke

Spec == Init /\ [][Next]_vars

\* Every step of a run and of the host is eventually taken.
FairSpec == Init /\ [][Next]_vars /\ WF_vars(Next)

\* ------------------------------------------------------------ a second run
\* The outcomes of the lookups of a run, in the order of the lookups.
OutcomesOf(log) ==
    [j \in 1..Len(SelectSeq(log, LAMBDA c : c.op = "get")) |->
        SelectSeq(log, LAMBDA c : c.op = "get")[j].arg.outcome]

\* Rerun that keeps the missing keys of the run before.
Rerun_KeepMissing ==
    /\ pc = "done"
    /\ ~history.repeat
    /\ resume_from_key' = history.arg
    /\ pc' = "start"
    /\ keys' = <<>>
    /\ page' = 0
    /\ pos' = 1
    /\ count' = 0
    /\ error_count' = 0
    /\ error_s3_keys' = <<>>
    /\ missing_keys' = missing_keys
    /\ need_to_resume' = FALSE
    /\ sqs_messages' = <<>>
    /\ sent' = 0
    /\ remaining' = IF lambda_ctx = NoneObj THEN 0 ELSE lambda_ctx.timeout
    /\ budget_checks' = <<>>
    /\ calls' = <<>>
    /\ raised' = NoException
    /\ exit_status' = NotExited
    /\ history' = [arg |-> history.arg, ran |-> TRUE, repeat |-> TRUE,
                    outcomes |-> OutcomesOf(calls), missing |-> missing_keys]
    /\ UNCHANGED <<format, output_file, sns_topic, lambda_ctx, world, aside>>

\* audit_tool.py:73,130-135,154: audit() is called again with the arguments
\* of the run that has returned; its locals start empty.
Rerun ==
    /\ pc = "done"
    /\ ~history.repeat
    /\ resume_from_key' = history.arg
    /\ pc' = "start"
    /\ keys' = <<>>
    /\ page' = 0
    /\ pos' = 1
    /\ count' = 0
    /\ error_count' = 0
    /\ error_s3_keys' = <<>>
    /\ missing_keys' = <<>>
    /\ need_to_resume' = FALSE
    /\ sqs_messages' = <<>>
    /\ sent' = 0
    /\ remaining' = IF lambda_ctx = NoneObj THEN 0 ELSE lambda_ctx.timeout
    /\ budget_checks' = <<>>
    /\ calls' = <<>>
    /\ raised' = NoException
    /\ exit_status' = NotExited
    /\ history' = [arg |-> history.arg, ran |-> TRUE, repeat |-> TRUE,
                    outcomes |-> OutcomesOf(calls), missing |-> missing_keys]
    /\ UNCHANGED <<format, output_file, sns_topic, lambda_ctx, world, aside>>

\* Runs over the bucket of RepeatKeys objects, with a destination.
RepeatInit ==
    /\ environ = FullEnv
    /\ format \in Formats
    /\ output_file = Dest
    /\ sns_topic = None
    /\ resume_from_key \in {NoneObj} \cup {PyStr(k) : k \in AllKeys}
    /\ lambda_ctx \in {NoneObj} \cup Contexts
    /\ s3_objects = ListingOf(1..RepeatKeys)
    /\ es_docs \in SUBSET {S3Url(s3_objects[j]) : j \in 1..Len(s3_objects)}
    /\ file_content = None
    /\ pending = NoneObj
    /\ RunStart
    /\ FirstRun
    /\ IndexerIdle
    /\ AuthenticatorIdle

RepeatNext == Next \/ Rerun

RepeatSpec == RepeatInit /\ [][RepeatNext]_vars

\* ============================================================== the indexer
\* parquet_file_es_indexer.py: ParquetFileEsIndexer.start(event). The event is
\* what S3ToSqs exposes of it: size() records, each with get_s3_url(i) and
\* get_event_name(i). S3StatExtractor, the statistics retriever and the
\* catalog client return normally.

\* str.__contains__ (line 91): k is a substring of string.
InStr(k, string) ==
    \E j \in 0..(Len(string) - Len(k)) : SubSeq(string, j + 1, j + Len(k)) = k

\* str.strip() (line 95)
Whitespace == {" ", "\t", "\n", "\r", "\f"}
RECURSIVE lstrip(_)
lstrip(string) ==
    IF string # <<>> /\ Head(string) \in Whitespace THEN lstrip(Tail(string))
    ELSE string
RECURSIVE rstrip(_)
rstrip(string) ==
    IF string # <<>> /\ string[Len(string)] \in Whitespace
    THEN rstrip(SubSeq(string, 1, Len(string) - 1))
    ELSE string
strip(string) == rstrip(lstrip(string))

\* str.lower() (line 95)
UpperCase ==
    <<"A", "B", "C", "D", "E", "F", "G", "H", "I", "J", "K", "L", "M",
      "N", "O", "P", "Q", "R", "S", "T", "U", "V", "W", "X", "Y", "Z">>
LowerCase ==
    <<"a", "b", "c", "d", "e", "f", "g", "h", "i", "j", "k", "l", "m",
      "n", "o", "p", "q", "r", "s", "t", "u", "v", "w", "x", "y", "z">>
LowerChar(c) ==
    IF \E j \in 1..Len(UpperCase) : UpperCase[j] = c
    THEN LowerCase[CHOOSE j \in 1..Len(UpperCase) : UpperCase[j] = c]
    ELSE c
lower(string) == [j \in 1..Len(string) |-> LowerChar(string[j])]

\* str.startswith (lines 96, 99)
startswith(string, prefix) ==
    /\ Len(string) >= Len(prefix)
    /\ SubSeq(string, 1, Len(prefix)) = prefix

\* line 88
ignoring_phrases ==
    {<<"s", "p", "a", "r", "k", "-", "s", "t", "a", "g", "i", "n", "g">>,
     <<"_", "t", "e", "m", "p", "o", "r", "a", "r", "y">>}

\* line 91
IsTempFile(s3_url) == \E k \in ignoring_phrases : InStr(k, s3_url)

\* s3_event without the strip().
s3_event_NoStrip(event_name) == lower(event_name)

\* line 95
s3_event(event_name) == lower(strip(event_name))

ObjectCreatedPrefix ==
    <<"o", "b", "j", "e", "c", "t", "c", "r", "e", "a", "t", "e", "d">>
ObjectRemovedPrefix ==
    <<"o", "b", "j", "e", "c", "t", "r", "e", "m", "o", "v", "e", "d">>

\* The catalog client (ESAbstract): index_one writes the document with the
\* given id, replacing the one the catalog holds; delete_by_id removes it.
index_one(docs, doc_id) == docs \cup {doc_id}
delete_by_id(docs, doc_id) == docs \ {doc_id}
\* S3StatExtractor(s3_url).start().s3_url
S3StatUrl(s3_url) == s3_url

\* The URLs and the event names of the records.
UrlStaging ==
    <<"s", "3", ":", "/", "/", "b", "/", ".", "s", "p", "a", "r", "k",
      "-", "s", "t", "a", "g", "i", "n", "g", "-", "1", "/", "a">>
UrlTemporary ==
    <<"s", "3", ":", "/", "/", "b", "/", "_", "t", "e", "m", "p", "o",
      "r", "a", "r", "y", "/", "0", "/", "a">>
UrlPlain ==
    <<"s", "3", ":", "/", "/", "b", "/", "t", "e", "m", "p", "o", "r",
      "a", "r", "y", "/", "b">>
RecordUrls == {S3Url(KeyOf(1)), UrlPlain, UrlStaging, UrlTemporary}

EventCreatedPut ==
    <<"O", "b", "j", "e", "c", "t", "C", "r", "e", "a", "t", "e", "d",
      ":", "P", "u", "t">>
EventCreatedPadded ==
    <<" ", "o", "b", "j", "e", "c", "t", "c", "r", "e", "a", "t", "e",
      "d", ":", "C", "o", "p", "y", "\n">>
EventRemoved ==
    <<"O", "b", "j", "e", "c", "t", "R", "e", "m", "o", "v", "e", "d",
      ":", "D", "e", "l", "e", "t", "e">>
EventRemovedUpper ==
    <<"O", "B", "J", "E", "C", "T", "R", "E", "M", "O", "V", "E", "D",
      ":", "D", "E", "L", "E", "T", "E">>
EventRestore ==
    <<"O", "b", "j", "e", "c", "t", "R", "e", "s", "t", "o", "r", "e",
      ":", "P", "o", "s", "t">>
EventPrefixed ==
    <<"s", "3", ":", "O", "b", "j", "e", "c", "t", "C", "r", "e", "a",
      "t", "e", "d", ":", "P", "u", "t">>
EventNames ==
    {EventCreatedPut, EventCreatedPadded, EventRemoved, EventRemovedUpper,
     EventRestore, EventPrefixed}

S3Records == [s3_url : RecordUrls, eventName : EventNames]
Events == UNION {[1..n -> S3Records] : n \in 0..MaxRecords}

\* audit() is not running.
AuditIdle ==
    /\ environ = FullEnv
    /\ format = "plain"
    /\ output_file = None
    /\ sns_topic = None
    /\ resume_from_key = NoneObj
    /\ lambda_ctx = NoneObj
    /\ s3_objects = <<>>
    /\ file_content = None
    /\ pending = NoneObj
    /\ RunStart
    /\ FirstRun

\* lines 36-43: the indexer is constructed; the catalog holds any documents.
IndexerInit ==
    /\ AuditIdle
    /\ AuthenticatorIdle
    /\ IndexerIdle
    /\ es_docs \in SUBSET {S3Url(KeyOf(1)), UrlPlain, UrlStaging}

\* What the indexer leaves alone.
IndexerFrame ==
    UNCHANGED <<args, environ, s3_objects, file_content, pending, locals,
                observed, history, authenticator>>

\* lines 85-88
StartIndexer ==
    /\ ix_pc = "idle"
    /\ \E event \in Events : ix_event' = event
    /\ ix_i' = 0
    /\ ix_pc' = "loop"
    /\ UNCHANGED <<ix_s3_url, ix_ops, es_docs>>
    /\ IndexerFrame

\* lines 89-93
SkipTempFile ==
    /\ ix_pc = "loop"
    /\ ix_i < Len(ix_event)
    /\ ix_s3_url' = ix_event[ix_i + 1].s3_url
    /\ IsTempFile(ix_s3_url')
    /\ ix_i' = ix_i + 1
    /\ UNCHANGED <<ix_pc, ix_event, ix_ops, es_docs>>
    /\ IndexerFrame

\* lines 89-98, 60-68
IngestFile ==
    /\ ix_pc = "loop"
    /\ ix_i < Len(ix_event)
    /\ ix_s3_url' = ix_event[ix_i + 1].s3_url
    /\ ~IsTempFile(ix_s3_url')
    /\ startswith(s3_event(ix_event[ix_i + 1].eventName), ObjectCreatedPrefix)
    /\ es_docs' = index_one(es_docs, S3StatUrl(ix_s3_url'))
    /\ ix_ops' = Append(ix_ops, [op |-> "index_one",
                                 id |-> S3StatUrl(ix_s3_url')])
    /\ ix_i' = ix_i + 1
    /\ UNCHANGED <<ix_pc, ix_event>>
    /\ IndexerFrame

\* lines 89-95, 99-101, 70-75
RemoveFile ==
    /\ ix_pc = "loop"
    /\ ix_i < Len(ix_event)
    /\ ix_s3_url' = ix_event[ix_i + 1].s3_url
    /\ ~IsTempFile(ix_s3_url')
    /\ ~startswith(s3_event(ix_event[ix_i + 1].eventName), ObjectCreatedPrefix)
    /\ startswith(s3_event(ix_event[ix_i + 1].eventName), ObjectRemovedPrefix)
    /\ es_docs' = delete_by_id(es_docs, ix_s3_url')
    /\ ix_ops' = Append(ix_ops, [op |-> "delete_by_id", id |-> ix_s3_url'])
    /\ ix_i' = ix_i + 1
    /\ UNCHANGED <<ix_pc, ix_event>>
    /\ IndexerFrame

\* lines 89-95, 102-103
InvalidS3Event ==
    /\ ix_pc = "loop"
    /\ ix_i < Len(ix_event)
    /\ ix_s3_url' = ix_event[ix_i + 1].s3_url
    /\ ~IsTempFile(ix_s3_url')
    /\ ~startswith(s3_event(ix_event[ix_i + 1].eventName), ObjectCreatedPrefix)
    /\ ~startswith(s3_event(ix_event[ix_i + 1].eventName), ObjectRemovedPrefix)
    /\ ix_i' = ix_i + 1
    /\ UNCHANGED <<ix_pc, ix_event, ix_ops, es_docs>>
    /\ IndexerFrame

\* lines 89, 104
IndexerReturn ==
    /\ ix_pc = "loop"
    /\ ix_i = Len(ix_event)
    /\ ix_pc' = "done"
    /\ UNCHANGED <<ix_event, ix_i, ix_s3_url, ix_ops, es_docs>>
    /\ IndexerFrame

IndexerNext ==
    \/ StartIndexer
    \/ SkipTempFile
    \/ IngestFile
    \/ RemoveFile
    \/ InvalidS3Event
    \/ IndexerReturn

IndexerSpec == IndexerInit /\ [][IndexerNext]_vars

\* ======================================================== the authenticator
\* authenticator_aws_secret_manager.py. Python values are records with their
\* type; a dict holds its items as a function of its keys.
JsonDict(items) == [type |-> "dict", items |-> items]
PyInt(n) == [type |-> "int", val |-> n]
EmptyItems == [k \in {} |-> NoneObj]

\* line 25
auth_cred_key ==
    <<"a", "u", "t", "h", "_", "c", "r", "e", "d">>
\* line 44
AuthorizationKey ==
    <<"A", "u", "t", "h", "o", "r", "i", "z", "a", "t", "i", "o", "n">>

\* key in container (lines 38, 44): membership of a dict's keys, substring of
\* a str, TypeError for a value that is not iterable.
PyIn(key, container) ==
    IF container.type = "dict" THEN
        (IF key \in DOMAIN container.items THEN "True" ELSE "False")
    ELSE IF container.type = "str" THEN
        (IF InStr(key, container.val) THEN "True" ELSE "False")
    ELSE "TypeError"

\* container[key] (lines 37, 40, 47)
PyGetItem(container, key) ==
    IF container.type = "dict" THEN
        (IF key \in DOMAIN container.items
         THEN [exc |-> NoException, value |-> container.items[key]]
         ELSE [exc |-> "KeyError", value |-> NoneObj])
    ELSE [exc |-> "TypeError", value |-> NoneObj]

\* base64.standard_b64decode (line 47) is binascii.a2b_base64 without strict
\* mode: characters outside the alphabet are discarded, a complete pad
\* sequence ends the data, a quantum left open is an error.
B64Alphabet ==
    <<"A", "B", "C", "D", "E", "F", "G", "H", "I", "J", "K", "L", "M",
      "N", "O", "P", "Q", "R", "S", "T", "U", "V", "W", "X", "Y", "Z",
      "a", "b", "c", "d", "e", "f", "g", "h", "i", "j", "k", "l", "m",
      "n", "o", "p", "q", "r", "s", "t", "u", "v", "w", "x", "y", "z",
      "0", "1", "2", "3", "4", "5", "6", "7", "8", "9", "+", "/">>
IsB64(c) == \E j \in 1..Len(B64Alphabet) : B64Alphabet[j] = c
B64Value(c) == (CHOOSE j \in 1..Len(B64Alphabet) : B64Alphabet[j] = c) - 1
B64Pad == "="

RECURSIVE a2b_base64(_, _, _, _, _)
a2b_base64(data, quad_pos, leftchar, pads, out) ==
    IF data = <<>> THEN [ok |-> quad_pos = 0, bytes |-> out]
    ELSE IF Head(data) = B64Pad THEN
        (IF quad_pos >= 2 /\ quad_pos + pads + 1 >= 4
         THEN [ok |-> TRUE, bytes |-> out]
         ELSE a2b_base64(Tail(data), quad_pos, leftchar,
                         IF quad_pos >= 2 THEN pads + 1 ELSE pads, out))
    ELSE IF ~IsB64(Head(data)) THEN
        a2b_base64(Tail(data), quad_pos, leftchar, pads, out)
    ELSE IF quad_pos = 0 THEN
        a2b_base64(Tail(data), 1, B64Value(Head(data)), 0, out)
    ELSE IF quad_pos = 1 THEN
        a2b_base64(Tail(data), 2, B64Value(Head(data)) % 16, 0,
                   Append(out, leftchar * 4 + B64Value(Head(data)) \div 16))
    ELSE IF quad_pos = 2 THEN
        a2b_base64(Tail(data), 3, B64Value(Head(data)) % 4, 0,
                   Append(out, leftchar * 16 + B64Value(Head(data)) \div 4))
    ELSE a2b_base64(Tail(data), 0, 0, 0,
                    Append(out, leftchar * 64 + B64Value(Head(data))))

standard_b64decode(data) == a2b_base64(data, 0, 0, 0, <<>>)

\* bytes.decode() (line 47): UTF-8. A character outside ASCII is decoded to
\* NonAscii, whatever its code point; AsciiTable[c + 1] is the character of
\* code c, written <c> for a control character, the quotation mark, the
\* backslash and the grave accent.
AsciiTable ==
    <<"<0>", "<1>", "<2>", "<3>", "<4>", "<5>", "<6>", "<7>", "<8>",
      "\t", "\n", "<11>", "\f", "\r", "<14>", "<15>", "<16>", "<17>",
      "<18>", "<19>", "<20>", "<21>", "<22>", "<23>", "<24>", "<25>",
      "<26>", "<27>", "<28>", "<29>", "<30>", "<31>", " ", "!", "<34>",
      "#", "$", "%", "&", "'", "(", ")", "*", "+", ",", "-", ".", "/",
      "0", "1", "2", "3", "4", "5", "6", "7", "8", "9", ":", ";", "<",
      "=", ">", "?", "@", "A", "B", "C", "D", "E", "F", "G", "H", "I",
      "J", "K", "L", "M", "N", "O", "P", "Q", "R", "S", "T", "U", "V",
      "W", "X", "Y", "Z", "[", "<92>", "]", "^", "_", "<96>", "a", "b", "c",
      "d", "e", "f", "g", "h", "i", "j", "k", "l", "m", "n", "o", "p",
      "q", "r", "s", "t", "u", "v", "w", "x", "y", "z", "{", "|", "}",
      "~", "<127>">>
NonAscii == "<non-ascii>"
IsContinuation(b) == b >= 128 /\ b <= 191
SequenceLength(b) ==
    IF b <= 127 THEN 1
    ELSE IF b >= 194 /\ b <= 223 THEN 2
    ELSE IF b >= 224 /\ b <= 239 THEN 3
    ELSE IF b >= 240 /\ b <= 244 THEN 4
    ELSE 0
RECURSIVE decode(_)
decode(bytes) ==
    IF bytes = <<>> THEN [ok |-> TRUE, text |-> <<>>]
    ELSE IF SequenceLength(Head(bytes)) = 0
            \/ SequenceLength(Head(bytes)) > Len(bytes)
            \/ \E j \in 2..SequenceLength(Head(bytes)) :
                   ~IsContinuation(bytes[j])
         THEN [ok |-> FALSE, text |-> <<>>]
    ELSE [ok |-> decode(SubSeq(bytes, SequenceLength(Head(bytes)) + 1,
                               Len(bytes))).ok,
          text |-> <<IF Head(bytes) <= 127 THEN AsciiTable[Head(bytes) + 1]
                     ELSE NonAscii>>
                   \o decode(SubSeq(bytes, SequenceLength(Head(bytes)) + 1,
                                    Len(bytes))).text]

\* line 47: the decoded Authorization value, or the failure of one of the
\* three calls (encode of a value that is no str, b64decode, decode).
InputAuthValue(value) ==
    IF value.type # "str" THEN [ok |-> FALSE, text |-> <<>>]
    ELSE IF ~standard_b64decode(value.val).ok THEN [ok |-> FALSE, text |-> <<>>]
    ELSE decode(standard_b64decode(value.val).bytes)

\* What AwsSecretManager.get_secret finds: no secret (it raises), a text that
\* is not JSON, or a JSON value.
SecretUnavailable == [kind |-> "unavailable", value |-> NoneObj]
SecretNotJson == [kind |-> "not_json", value |-> NoneObj]
SecretJson(value) == [kind |-> "json", value |-> value]
Tokens == {PyStr(<<>>), PyStr(<<"a">>), PyStr(<<"b">>), PyStr(<<"a", "b">>),
           PyInt(5)}
Secrets ==
    {SecretUnavailable, SecretNotJson,
     SecretJson(PyStr(<<"a">>)),
     SecretJson(JsonDict(<<"o">> :> PyStr(<<"a">>))),
     SecretJson(JsonDict(auth_cred_key :> PyInt(5))),
     SecretJson(JsonDict(auth_cred_key :> PyStr(<<"a">>))),
     SecretJson(JsonDict(auth_cred_key :> PyStr(<<"x">> \o auth_cred_key))),
     SecretJson(JsonDict(auth_cred_key :>
                             JsonDict(<<"o">> :> PyStr(<<"a">>))))}
    \cup {SecretJson(JsonDict(auth_cred_key :>
                                  JsonDict(auth_cred_key :> t))) : t \in Tokens}

\* The Authorization values of the requests.
AuthorizationValues ==
    {<<>>,
     <<"Y", "Q", "=", "=">>,
     <<"Y", "g", "=", "=">>,
     <<"Y", "Q">>,
     <<"Y">>,
     <<"!", "!", "!">>,
     <<"/", "w", "=", "=">>,
     <<"w", "6", "k", "=">>,
     <<"N", "Q", "=", "=">>,
     <<"Y", "W", "I", "=">>,
     <<" ", "Y", "Q", "=", "=", "\n">>,
     <<"Y", "Q", "=", "=", "Y", "Q", "=", "=">>}
Inputs ==
    {JsonDict(EmptyItems), JsonDict(AuthorizationKey :> NoneObj)}
    \cup {JsonDict(AuthorizationKey :> PyStr(v)) : v \in AuthorizationValues}

AuthReturn(op, value) ==
    [op |-> op, kind |-> "returned", value |-> value, exc |-> NoException]
AuthRaise(op, exc) ==
    [op |-> op, kind |-> "raised", value |-> NoneObj, exc |-> exc]

MissingKey == [type |-> "str", text |-> "missing key: Authorization"]
UnableToDecode ==
    [type |-> "str",
     text |-> "unable to base64 decode the value from Authorization"]
Mismatch ==
    [type |-> "str",
     text |-> "mismatch incoming base64 token vs existing token"]

\* What the authenticator leaves alone.
AuthenticatorFrame ==
    UNCHANGED <<args, world, locals, observed, history, indexer>>

\* lines 32-41, for what get_secret finds.
get_auth_credentials ==
    /\ \E secret \in Secrets :
          /\ au_secret' = secret
          /\ IF secret.kind = "unavailable" THEN
                 /\ au_result' = AuthRaise("get_auth_credentials", "ValueError")
                 /\ UNCHANGED <<au_token, au_loaded>>
             ELSE IF secret.kind = "not_json" THEN
                 /\ au_result' = AuthRaise("get_auth_credentials",
                                           "JSONDecodeError")
                 /\ UNCHANGED <<au_token, au_loaded>>
             ELSE IF PyGetItem(secret.value, auth_cred_key).exc # NoException
             THEN
                 /\ au_result' =
                        AuthRaise("get_auth_credentials",
                                  PyGetItem(secret.value, auth_cred_key).exc)
                 /\ UNCHANGED <<au_token, au_loaded>>
             ELSE
                 LET secret_json == PyGetItem(secret.value, auth_cred_key).value
                 IN  IF PyIn(auth_cred_key, secret_json) = "TypeError" THEN
                         /\ au_result' = AuthRaise("get_auth_credentials",
                                                   "TypeError")
                         /\ UNCHANGED <<au_token, au_loaded>>
                     ELSE IF PyIn(auth_cred_key, secret_json) = "False" THEN
                         /\ au_result' = AuthRaise("get_auth_credentials",
                                                   "ValueError")
                         /\ UNCHANGED <<au_token, au_loaded>>
                     ELSE IF PyGetItem(secret_json, auth_cred_key).exc
                             # NoException
                     THEN
                         /\ au_result' =
                                AuthRaise("get_auth_credentials",
                                    PyGetItem(secret_json, auth_cred_key).exc)
                         /\ UNCHANGED <<au_token, au_loaded>>
                     ELSE
                         /\ au_token' =
                                PyGetItem(secret_json, auth_cred_key).value
                         /\ au_loaded' = TRUE
                         /\ au_result' = AuthReturn("get_auth_credentials",
                                                    secret_json)
    /\ UNCHANGED au_input
    /\ AuthenticatorFrame

\* lines 43-52
authenticate ==
    /\ \E input_auth_cred \in Inputs :
          /\ au_input' = input_auth_cred
          /\ au_result' =
                IF PyIn(AuthorizationKey, input_auth_cred) # "True"
                THEN AuthReturn("authenticate", MissingKey)
                ELSE IF ~InputAuthValue(
                            input_auth_cred.items[AuthorizationKey]).ok
                THEN AuthReturn("authenticate", UnableToDecode)
                ELSE IF PyStr(InputAuthValue(
                              input_auth_cred.items[AuthorizationKey]).text)
                        # au_token
                THEN AuthReturn("authenticate", Mismatch)
                ELSE AuthReturn("authenticate", NoneObj)
    /\ UNCHANGED <<au_token, au_secret, au_loaded>>
    /\ AuthenticatorFrame

AuthInit ==
    /\ AuditIdle
    /\ es_docs = {}
    /\ IndexerIdle
    /\ AuthenticatorIdle

AuthNext ==
    \/ get_auth_credentials
    \/ authenticate

AuthSpec == AuthInit /\ [][AuthNext]_vars

\* ----------------------------------------------------------------- claims
IsGet(c) == c.op = "get"
IsSend(c) == c.op = "send_message"
IsPublish(c) == c.op = "publish"
IsInvoke(c) == c.op = "invoke"
IsWrite(c) == c.op = "write"
Gets == SelectSeq(calls, IsGet)
Sends == SelectSeq(calls, IsSend)
Publishes == SelectSeq(calls, IsPublish)
Invokes == SelectSeq(calls, IsInvoke)
Writes == SelectSeq(calls, IsWrite)

ScanOver == pc \in {"report", "sqs", "resume", "done"}
Returned == pc \in {"resume", "done"}
Absent(key) == OpensearchId(key) \notin es_docs
PositionOf(key) == CHOOSE j \in 1..Len(s3_objects) : s3_objects[j] = key
Listed(key) == \E j \in 1..Len(s3_objects) : s3_objects[j] = key
Occurrences(seq, x) == Cardinality({j \in 1..Len(seq) : seq[j] = x})
\* Every lookup of the run so far answered Found or NotFound.
AnsweredAll ==
    \A j \in 1..Len(Gets) :
        Gets[j].arg.outcome \in {"dict_found", "dict_not_found", "NotFoundError"}

\* C1: a run without host and without resume key, whose lookups all answer
\* Found or NotFound, ends with missing_keys equal to the listed keys that
\* have no document in the catalog, each once, in listing order.
C1_MissingIsAbsentInOrder ==
    (ScanOver /\ lambda_ctx = NoneObj /\ resume_from_key = NoneObj
        /\ AnsweredAll)
    => missing_keys = SelectSeq(s3_objects, Absent)

C1_Witness ==
    /\ pc = "done"
    /\ lambda_ctx = NoneObj /\ resume_from_key = NoneObj /\ AnsweredAll
    /\ Len(s3_objects) = MaxKeys
    /\ Len(missing_keys) = 2
    /\ missing_keys[1] = s3_objects[1] /\ missing_keys[2] = s3_objects[3]

\* C2: with resume_from_key = K, K the key of a listed object, the checker
\* is invoked for the object K and those after it, and for none before K.
C2_ResumeStartsAtKey ==
    (pc \in {"loop", "report", "sqs", "resume", "done"} /\ ~need_to_resume
        /\ resume_from_key # NoneObj /\ Listed(resume_from_key.val))
    => /\ \A j \in 1..Len(Gets) :
             Gets[j].arg.id =
                 OpensearchId(s3_objects[PositionOf(resume_from_key.val) + j - 1])
       /\ ScanOver =>
             Len(Gets) = Len(s3_objects) - PositionOf(resume_from_key.val) + 1

\* C3: a key whose lookup fails, whatever the failure, is in missing_keys
\* exactly once when the scan is over.
C3_FailedLookupIsMissing ==
    ScanOver =>
        \A j \in 1..Len(Gets) :
            Gets[j].arg.outcome # "dict_found"
            => Occurrences(missing_keys, keys[j].Key) = 1

\* An invocation by a host whose budget lets at least one item through and
\* fewer than all the items of the listing.
ChainStarts ==
    /\ pc = "start"
    /\ lambda_ctx # NoneObj
    /\ ~OutputFileRequired(format, output_file)
    /\ environ = FullEnv
    /\ lambda_ctx.timeout >= LowWaterMs
    /\ lambda_ctx.timeout - (Len(s3_objects) - 1) * LookupMs < LowWaterMs
Completed == pc = "done" /\ ~need_to_resume

\* C4: a chain of invocations, each with the budget for at least one item
\* and for fewer than all of them, reaches an invocation that completes.
C4_ChainCompletes == ChainStarts ~> Completed

\* C5: the budget is read once before each item when there is a host; a
\* reading below LowWaterMs suspends the run with the cursor on the current
\* item, which is neither looked up nor counted, as is every later item.
C5_SuspendAtItemBoundary ==
    /\ Len(budget_checks) =
          IF lambda_ctx = NoneObj THEN 0
          ELSE count + (IF need_to_resume THEN 1 ELSE 0)
    /\ \A j \in 1..Len(budget_checks) :
          budget_checks[j] < LowWaterMs
          => j = Len(budget_checks) /\ need_to_resume
    /\ need_to_resume =>
          /\ ScanOver
          /\ lambda_ctx # NoneObj
          /\ budget_checks[Len(budget_checks)] < LowWaterMs
          /\ pos <= Len(keys)
          /\ resume_from_key = PyStr(keys[pos].Key)
          /\ count = pos - 1
          /\ Len(Gets) = pos - 1
          /\ \A j \in 1..Len(Gets) :
                Gets[j].arg.id = OpensearchId(keys[j].Key)
          /\ \A j \in pos..Len(keys) : \A g \in 1..Len(Gets) :
                Gets[g].arg.id # OpensearchId(keys[j].Key)

C5_Witness ==
    /\ pc = "done"
    /\ need_to_resume
    /\ count >= 1
    /\ pos < Len(keys)

\* The lines of a text, each ended by Newline; a rest without Newline is a
\* line of its own.
RECURSIVE SplitLines(_, _)
SplitLines(text, line) ==
    IF text = <<>> THEN (IF line = <<>> THEN <<>> ELSE <<line>>)
    ELSE IF Head(text) = Newline
         THEN <<line>> \o SplitLines(Tail(text), <<>>)
         ELSE SplitLines(Tail(text), Append(line, Head(text)))
EndsLines(text) == text = <<>> \/ text[Len(text)] = Newline

\* The Result Sink has received missing_keys.
SinkDelivered ==
    IF format = "plain"
    THEN Truthy(output_file) =>
            /\ Len(Writes) = 1
            /\ Writes[1].arg.path = output_file
            /\ SplitLines(Writes[1].arg.text, <<>>) = missing_keys
    ELSE /\ Len(Sends) = Len(missing_keys)
         /\ \A j \in 1..Len(Sends) :
               Sends[j].arg.body.Records[1].s3.object.key = missing_keys[j]
         /\ Truthy(sns_topic) => Len(Publishes) = 1

\* C6: a suspended run hands missing_keys to the Result Sink before it
\* triggers the re-invocation, triggers it once, as an Event with the payload
\* {ResumeFromKey: cursor}; a completed run triggers none.
C6_SinkThenReinvokeOnce ==
    /\ Len(Invokes) <= 1
    /\ Len(Invokes) = 1 =>
          /\ need_to_resume
          /\ calls[Len(calls)].op = "invoke"
          /\ Invokes[1].arg =
                [FunctionName |-> lambda_ctx.function_name,
                 InvocationType |-> "Event",
                 Payload |-> [ResumeFromKey |-> keys[pos].Key]]
          /\ pending = [ResumeFromKey |-> keys[pos].Key]
          /\ SinkDelivered
    /\ pc = "done" => (Len(Invokes) = 1 <=> need_to_resume)
    /\ pending # NoneObj => Len(Invokes) = 1

C6_Witness ==
    /\ pc = "done"
    /\ need_to_resume
    /\ format = "mock-s3"
    /\ sns_topic = Topic
    /\ Len(missing_keys) >= 1
    /\ Len(Invokes) = 1

\* C7: format 'mock-s3' without output_file raises before any call on the
\* store, the catalog, the queue, the topic or the host.
C7_RequeueNeedsDestination ==
    (format = "mock-s3" /\ output_file \in {None, <<>>})
    => /\ pc \in {"start", "raised"}
       /\ pc = "raised" => raised = "ValueError"
       /\ calls = <<>>
       /\ pending = NoneObj

C7_Witness ==
    /\ format = "mock-s3" /\ output_file = <<>>
    /\ environ = FullEnv /\ s3_objects # <<>>
    /\ pc = "raised" /\ raised = "ValueError"

RequiredNames ==
    {"AWS_ACCESS_KEY_ID", "AWS_SECRET_ACCESS_KEY", "OPENSEARCH_ENDPOINT",
     "OPENSEARCH_INDEX", "OPENSEARCH_PATH_PREFIX", "OPENSEARCH_BUCKET"}
RequiredUnset == \E n \in RequiredNames : environ[n] = None

\* C8: with a required environment value unset the process exits with
\* status 1 and has made no call on the store, the catalog, the sink or the
\* host; OPENSEARCH_PATH_PREFIX set to '' is set, and causes no exit.
C8_UnsetEnvironmentExits ==
    /\ RequiredUnset =>
          /\ pc \in {"start", "aws_env", "os_env", "raised"}
          /\ pc = "raised" => exit_status = 1
          /\ calls = <<>>
          /\ pending = NoneObj
          /\ file_content = None
    /\ ~RequiredUnset => raised # "SystemExit"

C8_Witness ==
    /\ environ.OPENSEARCH_BUCKET = None
    /\ \A n \in RequiredNames \ {"OPENSEARCH_BUCKET"} : environ[n] # None
    /\ environ.OPENSEARCH_PATH_PREFIX = <<>>
    /\ pc = "raised" /\ raised = "SystemExit" /\ exit_status = 1

\* C9: in requeue mode with a queue, one message per entry of missing_keys
\* is sent to it in order, an ObjectCreated:Put event of the bucket and the
\* key; a summary is published iff a topic is given, once, after the sends.
C9_OneMessagePerMissingKey ==
    (format = "mock-s3" /\ Truthy(output_file))
    => /\ Len(Sends) <= Len(missing_keys)
       /\ Returned => Len(Sends) = Len(missing_keys)
       /\ \A j \in 1..Len(Sends) :
             /\ Sends[j].arg.queue = output_file
             /\ Len(Sends[j].arg.body.Records) = 1
             /\ Sends[j].arg.body.Records[1].eventName = "ObjectCreated:Put"
             /\ Sends[j].arg.body.Records[1].s3.bucket.name
                    = environ.OPENSEARCH_BUCKET
             /\ Sends[j].arg.body.Records[1].s3.object.key = missing_keys[j]
       /\ Len(Publishes) <= 1
       /\ Returned => (Len(Publishes) = 1 <=> sns_topic # None)
       /\ \A j \in 1..Len(calls) :
             calls[j].op = "publish"
             => /\ Len(Sends) = Len(missing_keys)
                /\ \A i \in 1..Len(calls) : calls[i].op = "send_message" => i < j

C9_Witness ==
    /\ format = "mock-s3" /\ output_file = Dest /\ sns_topic = Topic
    /\ pc = "done"
    /\ Len(missing_keys) >= 2
    /\ Len(missing_keys) < count
    /\ Len(Publishes) = 1

\* C10: in report mode the file given holds, after the run, missing_keys one
\* key per line in scan order; with no file given nothing is written or sent
\* and the run ends without an exception.
C10_ReportFile ==
    format = "plain"
    => /\ (Truthy(output_file) /\ Returned) =>
             /\ file_content # None
             /\ EndsLines(file_content)
             /\ SplitLines(file_content, <<>>) = missing_keys
       /\ ~Truthy(output_file) =>
             /\ file_content = None
             /\ Writes = <<>> /\ Sends = <<>> /\ Publishes = <<>>
             /\ ~RequiredUnset => raised = NoException
             /\ pc = "done" => exit_status = 0

C10_Witness ==
    /\ format = "plain" /\ output_file = Dest
    /\ pc = "done"
    /\ Len(missing_keys) >= 2
    /\ Len(missing_keys) < count

\* C11: a resume key that matches no listed object does not fail the run,
\* which audits the listing from its first object.
C11_AbsentResumeKeyStartsAtFirst ==
    (pc \in {"loop", "report", "sqs", "resume", "done"} /\ ~need_to_resume
        /\ resume_from_key # NoneObj /\ ~Listed(resume_from_key.val))
    => /\ raised = NoException
       /\ keys = [j \in 1..Len(s3_objects) |-> PyDict(s3_objects[j])]
       /\ \A j \in 1..Len(Gets) :
             Gets[j].arg.id = OpensearchId(s3_objects[j])
       /\ ScanOver => Len(Gets) = Len(s3_objects)

C11_Witness ==
    /\ pc = "done" /\ ~need_to_resume
    /\ resume_from_key # NoneObj /\ ~Listed(resume_from_key.val)
    /\ Len(s3_objects) = 2
    /\ Len(Gets) = 2
    /\ exit_status = 0

\* C12: a failed lookup is neither retried nor fatal: the items reached are
\* looked up once each, in order, and a run that is not suspended looks up
\* every item, whatever the lookups before it did.
C12_LookupOncePerItem ==
    /\ Gets # <<>> => raised = NoException
    /\ pc \in {"loop", "report", "sqs", "resume", "done"} =>
          /\ Len(Gets) = pos - 1
          /\ \A j \in 1..Len(Gets) :
                Gets[j].arg.id = OpensearchId(keys[j].Key)
          /\ \A i, j \in 1..Len(Gets) :
                Gets[i].arg.id = Gets[j].arg.id => i = j
          /\ (ScanOver /\ ~need_to_resume) => Len(Gets) = Len(keys)

C12_Witness ==
    /\ pc = "done" /\ ~need_to_resume
    /\ Len(Gets) = 3
    /\ Gets[1].arg.outcome = "TransportError"
    /\ Gets[2].arg.outcome = "NotFoundError"
    /\ Gets[3].arg.outcome = "dict_found"

\* C13: a listed key is left out of missing_keys only if its lookup returned
\* a dict whose 'found' is true; None, a response that is no dict and a
\* false flag put the key in missing_keys.
C13_OnlyFoundIsLeftOut ==
    ScanOver =>
        \A j \in 1..Len(Gets) :
            /\ Occurrences(missing_keys, keys[j].Key) = 0
               => Gets[j].arg.outcome = "dict_found"
            /\ Gets[j].arg.outcome \in {"None", "non_dict", "dict_not_found"}
               => Occurrences(missing_keys, keys[j].Key) >= 1

\* C18: without a host context the run never suspends: the clock is not
\* read, every item is looked up, the run completes, nothing is re-invoked.
C18_NoHostNoSuspension ==
    lambda_ctx = NoneObj
    => /\ ~need_to_resume
       /\ budget_checks = <<>>
       /\ Invokes = <<>>
       /\ pending = NoneObj
       /\ ScanOver => Len(Gets) = Len(keys)
       /\ pc = "done" => Completed

C18_Witness ==
    /\ lambda_ctx = NoneObj
    /\ pc = "done"
    /\ Len(keys) = MaxKeys
    /\ Len(Gets) = MaxKeys

\* The operations of audit() on its collaborators; "get" is the only one on
\* the catalog.
AuditOps ==
    {"list_objects_v2", "get", "write", "send_message", "publish", "invoke"}

\* C16: no step of a run, nor of the chain of runs, changes the catalog, and
\* the only operation a run performs on the catalog is the read by id.
C16_CatalogReadOnly ==
    [][/\ es_docs' = es_docs
       /\ \A i \in 1..Len(calls') : calls'[i].op \in AuditOps]_vars

C16_Witness ==
    /\ pc = "done"
    /\ need_to_resume
    /\ format = "mock-s3"
    /\ es_docs # {}
    /\ \E i \in 1..Len(Gets) : Gets[i].arg.outcome = "NotFoundError"
    /\ \E i \in 1..Len(Gets) : Gets[i].arg.outcome = "dict_found"

EndsWithSlash(string) == string # <<>> /\ string[Len(string)] = Slash

\* C15: every lookup uses the id prefix followed by the object key, the
\* prefix ends with '/' whatever value is configured for it, and distinct
\* object keys have distinct ids.
C15_IdPrefixEndsWithSlash ==
    Gets # <<>>
    => /\ \A i \in 1..Len(Gets) :
             Gets[i].arg.id = OPENSEARCH_ID_PREFIX \o keys[i].Key
       /\ EndsWithSlash(OPENSEARCH_ID_PREFIX)
       /\ \A k1, k2 \in AllKeys :
             k1 # k2 => OpensearchId(k1) # OpensearchId(k2)

\* C19: in report mode the destination holds the missing keys of the last run
\* that wrote it and nothing else: those of the run that has just returned,
\* and, while its successor has not yet written, still those of that run.
C19_ReportReplacedByEachRun ==
    (format = "plain" /\ Truthy(output_file))
    => /\ Returned => SplitLines(file_content, <<>>) = missing_keys
       /\ (history.ran /\ ~Returned) =>
             SplitLines(file_content, <<>>) = history.missing

C19_Witness ==
    /\ format = "plain" /\ output_file = Dest
    /\ history.ran
    /\ history.missing # <<>>
    /\ Returned
    /\ missing_keys # history.missing
    /\ Len(Writes) = 1
    /\ SplitLines(file_content, <<>>) = missing_keys

\* C14: a second run with the arguments, the listing and the catalog of the
\* first, whose lookups have the outcomes of the first run's lookups, has the
\* missing keys of the first run, in the same order.
C14_SameRunSameMissingKeys ==
    (history.repeat /\ ScanOver /\ OutcomesOf(calls) = history.outcomes)
    => missing_keys = history.missing

C14_Witness ==
    /\ history.repeat
    /\ pc = "done"
    /\ Len(history.outcomes) = RepeatKeys
    /\ OutcomesOf(calls) = history.outcomes
    /\ history.missing # <<>>
    /\ Len(history.missing) < RepeatKeys
    /\ missing_keys = history.missing

\* The records of the model by what the indexer is to do with them.
TransientUrls == {UrlStaging, UrlTemporary}
CreatedNames == {EventCreatedPut, EventCreatedPadded}
RemovedNames == {EventRemoved, EventRemovedUpper}
ExpectedOp(record) ==
    IF record.s3_url \in TransientUrls THEN <<>>
    ELSE IF record.eventName \in CreatedNames
         THEN <<[op |-> "index_one", id |-> record.s3_url]>>
    ELSE IF record.eventName \in RemovedNames
         THEN <<[op |-> "delete_by_id", id |-> record.s3_url]>>
    ELSE <<>>
RECURSIVE ExpectedOps(_)
ExpectedOps(records) ==
    IF records = <<>> THEN <<>>
    ELSE ExpectedOp(Head(records)) \o ExpectedOps(Tail(records))
ExpectedDocs(docs, record) ==
    IF ExpectedOp(record) = <<>> THEN docs
    ELSE IF ExpectedOp(record)[1].op = "index_one"
         THEN docs \cup {record.s3_url}
    ELSE docs \ {record.s3_url}

\* C17: start handles the records one by one in the order of the event and
\* returns after the last; a record of a transient path or with another event
\* name changes nothing, a created record puts the document with the URL as
\* id into the catalog, a removed record takes it out.
C17_IndexerFollowsEvents ==
    [][/\ ix_i' \in {ix_i, ix_i + 1}
       /\ ix_ops' = ExpectedOps(SubSeq(ix_event', 1, ix_i'))
       /\ ix_i' = ix_i + 1 => es_docs' = ExpectedDocs(es_docs, ix_event[ix_i'])
       /\ ix_i' = ix_i => es_docs' = es_docs
       /\ ix_pc' = "done" => ix_i' = Len(ix_event')]_vars

C17_Witness ==
    /\ ix_pc = "done"
    /\ Len(ix_event) = 2
    /\ ix_event[1] = [s3_url |-> UrlPlain, eventName |-> EventRestore]
    /\ ix_event[2] = [s3_url |-> UrlPlain, eventName |-> EventCreatedPadded]
    /\ ix_ops = <<[op |-> "index_one", id |-> UrlPlain]>>
    /\ UrlPlain \in es_docs

\* The Authorization values that base64-decode to text, with the text.
DecodedTexts ==
    {<<<<>>, <<>>>>,
     <<<<"!", "!", "!">>, <<>>>>,
     <<<<"Y", "Q", "=", "=">>, <<"a">>>>,
     <<<<" ", "Y", "Q", "=", "=", "\n">>, <<"a">>>>,
     <<<<"Y", "Q", "=", "=", "Y", "Q", "=", "=">>, <<"a">>>>,
     <<<<"Y", "g", "=", "=">>, <<"b">>>>,
     <<<<"Y", "W", "I", "=">>, <<"a", "b">>>>,
     <<<<"N", "Q", "=", "=">>, <<"5">>>>,
     <<<<"w", "6", "k", "=">>, <<NonAscii>>>>}
Accepted(input, token) ==
    /\ AuthorizationKey \in DOMAIN input.items
    /\ \E p \in DecodedTexts :
          /\ input.items[AuthorizationKey] = PyStr(p[1])
          /\ token = PyStr(p[2])

\* C20: authenticate returns None only after get_auth_credentials has
\* succeeded, and then exactly for an Authorization value that decodes to the
\* stored token; otherwise it returns a message; it never raises and never
\* changes the token.
C20_AuthenticateNeedsCredentials ==
    [][(/\ au_result'.op = "authenticate"
        /\ <<au_input, au_result>>' # <<au_input, au_result>>)
       => /\ au_token' = au_token
          /\ au_result'.kind = "returned"
          /\ au_result'.value = NoneObj
                <=> (au_loaded /\ Accepted(au_input', au_token))
          /\ au_result'.value # NoneObj
                => au_result'.value \in {MissingKey, UnableToDecode, Mismatch}]_vars

====
